---- MODULE Spec2Model ----
(***************************************************************************)
(* A state-machine model of memory_debug.hpp: the Trunk<T> handle objects, *)
(* the heap cells they share (_data buffer, _deleted flag, _refcount       *)
(* counter) and the Allocator registry, with the process termination       *)
(* sequence (exit() running the static Allocator's destructor).            *)
(*                                                                         *)
(* Every Trunk object keeps its OWN copy of _allocated, _freed, _single,   *)
(* _data, _size and _iter; only the cells behind _deleted and _refcount    *)
(* (and the buffer behind _data) are shared between objects.               *)
(***************************************************************************)
EXTENDS Integers, Sequences, FiniteSets, TLC

\* ---------------------------------------------------------------- bounds
MaxAllocs == 2      \* calls of Allocator::alloc in one run
MaxCopies == 1      \* Trunk objects made by copy-construction in one run
MaxCount  == 2      \* largest element count requested
MaxLine   == 2      \* distinct call sites (file:line)
MaxVal    == 1      \* element values are 0..MaxVal
MaxCursor == 1      \* the cursor is walked within 0..MaxCursor and one wrap
SizeBits  == 8      \* width given to size_t
MaxOps    == 5      \* operations the program performs before it ends
MaxOffset == 1      \* offsets given to operator+ and operator- are 0..MaxOffset

SizeMod == 2 ^ SizeBits

Handles  == 1 .. (MaxAllocs + MaxCopies)   \* Trunk objects; 1..MaxAllocs are the pool's
CopyIds  == (MaxAllocs + 1) .. (MaxAllocs + MaxCopies)
Cells    == 1 .. MaxAllocs                 \* heap cells, one triple per constructor call
Lines    == 1 .. MaxLine
Vals     == 0 .. MaxVal
Counts   == 0 .. MaxCount
Indices  == 0 .. MaxCount
Offsets  == 0 .. MaxOffset

VARIABLES
  pool,      \* Allocator::pool, the sequence of Trunk objects it owns
  trunk,     \* the Trunk objects: their member fields
  heap,      \* contents of the buffers made by new T[count]
  nrelease,  \* how many times delete[] ran on each buffer
  deleted,   \* the bool cells made by new bool(false)
  refcount,  \* the size_t cells made by new size_t(1)
  pc,        \* "running", "exiting", "done", "crashed", "aborted"
  exitCode,  \* argument of the latest exit() call, -1 before any
  tearIdx,   \* position of ~Allocator's loop over pool
  out,       \* the diagnostic records printed so far
  ret,       \* value returned by the latest operation
  freeSite,  \* history: the trace with which free() released each buffer
  allocSite, \* history: the call site of the alloc that made each buffer
  nops       \* operations performed so far

vars == <<pool, trunk, heap, nrelease, deleted, refcount, pc, exitCode,
          tearIdx, out, ret, freeSite, allocSite, nops>>

\* ------------------------------------------------------------ Trace, Iter
ZeroTrace == 0

\* an element that new T[count] left uninitialised, or storage that is gone
Indet == -1

Iter(t, i) == [trunk |-> t, idx |-> i]

NoTrunk == [st |-> "none", allocated |-> ZeroTrace, freed |-> ZeroTrace,
            single |-> FALSE, data |-> 0, size |-> 0, iter |-> Iter(0, 0),
            deleted |-> 0, refcount |-> 0]

NoRet == [kind |-> "none", val |-> 0, iter |-> Iter(0, 0)]
ValRet(v) == [kind |-> "val", val |-> v, iter |-> Iter(0, 0)]
IterRet(it) == [kind |-> "iter", val |-> 0, iter |-> it]

Diag(code, h, allocatedAt, first, second, idx, size) ==
  [code |-> code, via |-> h, obj |-> trunk[h].refcount,
   allocated |-> allocatedAt, first |-> first, second |-> second,
   idx |-> idx, size |-> size]

\* a destroyed object: its storage is gone
DeadTrunk == [NoTrunk EXCEPT !.st = "dead"]

Live(h) == trunk[h].st = "live"

\* -------------------------------------------------------------- Init
Init ==
  /\ pool = <<>>
  /\ trunk = [h \in Handles |-> NoTrunk]
  /\ heap = [c \in Cells |-> <<>>]
  /\ nrelease = [c \in Cells |-> 0]
  /\ deleted = [c \in Cells |-> FALSE]
  /\ refcount = [c \in Cells |-> 0]
  /\ pc = "running"
  /\ exitCode = -1
  /\ tearIdx = 1
  /\ out = <<>>
  /\ ret = NoRet
  /\ freeSite = [c \in Cells |-> ZeroTrace]
  /\ allocSite = [c \in Cells |-> ZeroTrace]
  /\ nops = 0

\* the program is running and performs one more operation
Step ==
  /\ pc = "running"
  /\ nops < MaxOps
  /\ nops' = nops + 1

\* ------------------------------------------------------ exit and cleanup
\* exit(no).  Called while the program runs it starts the termination
\* sequence, which destroys the static Allocator.  Called from inside that
\* destructor it is undefined behaviour: the process ends there or crashes.
Exit(no) ==
  /\ exitCode' = no
  /\ IF pc = "running"
       THEN pc' = "exiting" /\ tearIdx' = 1
       ELSE pc' \in {"done", "crashed"} /\ tearIdx' = tearIdx

\* cleanup_and_exit(no): delete [] _data; *_deleted = true; exit(no).
\* delete[] on a buffer that was already released is undefined behaviour:
\* the allocator may abort the process there, or carry on to exit(no).
CleanupAndExit(h, no) ==
  /\ nrelease' = [nrelease EXCEPT ![trunk[h].data] = @ + 1]
  /\ heap' = [heap EXCEPT ![trunk[h].data] = <<>>]
  /\ deleted' = [deleted EXCEPT ![trunk[h].deleted] = TRUE]
  /\ \/ Exit(no)
     \/ /\ nrelease[trunk[h].data] >= 1
        /\ pc' = "crashed"
        /\ UNCHANGED <<exitCode, tearIdx>>

\* --*_refcount, in size_t arithmetic
DecRef(h) ==
  [refcount EXCEPT ![trunk[h].refcount] = (@ + SizeMod - 1) % SizeMod]

\* give_up_ref testing the counter before it decrements it
GiveUpLeaksPostDecrement(h) ==
  /\ refcount[trunk[h].refcount] = 0
  /\ ~deleted[trunk[h].deleted]

\* give_up_ref without the test of *_deleted
GiveUpLeaksIgnoresDeleted(h) ==
  DecRef(h)[trunk[h].refcount] = 0

\* the condition of give_up_ref: --*_refcount == 0 && !*_deleted
GiveUpLeaks(h) ==
  /\ DecRef(h)[trunk[h].refcount] = 0
  /\ ~deleted[trunk[h].deleted]

LeakDiag(h) == Diag(11, h, trunk[h].allocated, ZeroTrace, ZeroTrace, 0, 0)

\* ---------------------------------------------------------------- alloc
\* Allocator::alloc -> Trunk::Trunk; the assertions of the constructor
\* abort the process when the count does not fit the kind.
Alloc(count, line, single) ==
  /\ Step
  /\ Len(pool) < MaxAllocs
  /\ LET h == Len(pool) + 1
         c == Len(pool) + 1
     IN IF (single /\ count # 1) \/ (~single /\ count < 1)
          THEN /\ pc' = "aborted"
               /\ UNCHANGED <<pool, trunk, heap, nrelease, deleted, refcount,
                              exitCode, tearIdx, out, ret, freeSite, allocSite>>
          ELSE /\ trunk' = [trunk EXCEPT ![h] =
                    [st |-> "live", allocated |-> line, freed |-> ZeroTrace,
                     single |-> single, data |-> c, size |-> count,
                     iter |-> Iter(h, 0), deleted |-> c, refcount |-> c]]
               /\ heap' = [heap EXCEPT ![c] = [i \in 1 .. count |-> Indet]]
               /\ deleted' = [deleted EXCEPT ![c] = FALSE]
               /\ refcount' = [refcount EXCEPT ![c] = 1]
               /\ pool' = Append(pool, h)
               /\ ret' = NoRet
               /\ UNCHANGED <<nrelease, pc, exitCode, tearIdx, out, freeSite>>
               /\ allocSite' = [allocSite EXCEPT ![c] = line]

\* ------------------------------------------------- copy-construction
\* Trunk declares no copy constructor: the implicit one copies every
\* member, the _iter (with its _trunk pointer) and both cell pointers
\* included, and touches no cell.
CopyConstruct(n, h) ==
  /\ Step
  /\ Live(h)
  /\ n \in CopyIds /\ trunk[n].st = "none"
  /\ \A m \in CopyIds : trunk[m].st = "none" => n <= m
  /\ trunk' = [trunk EXCEPT ![n] = trunk[h]]
  /\ ret' = NoRet
  /\ UNCHANGED <<pool, heap, nrelease, deleted, refcount, pc, exitCode,
                 tearIdx, out, freeSite, allocSite>>

\* ------------------------------------------------------------ ~Trunk
\* Destruction of a copy (an automatic object leaving its scope).
Destroy(h) ==
  /\ Step
  /\ h \in CopyIds /\ Live(h)
  /\ refcount' = DecRef(h)
  /\ ret' = NoRet
  /\ IF GiveUpLeaks(h)
       THEN /\ out' = Append(out, LeakDiag(h))
            /\ CleanupAndExit(h, 11)
            /\ UNCHANGED <<pool, trunk, freeSite, allocSite>>
       ELSE /\ trunk' = [trunk EXCEPT ![h] = DeadTrunk]
            /\ UNCHANGED <<pool, heap, nrelease, deleted, pc, exitCode,
                           tearIdx, out, freeSite, allocSite>>

\* -------------------------------------------------------------- free
\* free without the double-free check
FreeCodeNoDoubleFreeCheck(h, single) ==
  IF trunk[h].single /\ ~single THEN 21
  ELSE IF ~trunk[h].single /\ single THEN 22
  ELSE 0

\* The diagnostic free(trace, single) ends with, 0 when it ends normally:
\* the two kind checks come first, then the double-free check.
FreeCode(h, single) ==
  IF trunk[h].single /\ ~single THEN 21
  ELSE IF ~trunk[h].single /\ single THEN 22
  ELSE IF deleted[trunk[h].deleted] THEN 12
  ELSE 0

\* free that does not record its call site
FreedTrunkKeepsTrace(h, trace) == trunk

\* _freed = trace, the last statement of free
FreedTrunk(h, trace) == [trunk EXCEPT ![h].freed = trace]

\* Trunk::free(trace, single), through the object h
Free(h, trace, single) ==
  /\ Step
  /\ Live(h)
  /\ ret' = NoRet
  /\ LET code == FreeCode(h, single) IN
     CASE code \in {21, 22} ->
            /\ out' = Append(out, Diag(code, h, trunk[h].allocated,
                                       ZeroTrace, trace, 0, 0))
            /\ CleanupAndExit(h, code)
            /\ UNCHANGED <<pool, trunk, refcount, freeSite, allocSite>>
       [] code = 12 ->
            /\ out' = Append(out, Diag(12, h, ZeroTrace, trunk[h].freed,
                                       trace, 0, 0))
            /\ Exit(12)
            /\ UNCHANGED <<pool, trunk, heap, nrelease, deleted, refcount,
                           freeSite, allocSite>>
       [] OTHER ->
            /\ nrelease' = [nrelease EXCEPT ![trunk[h].data] = @ + 1]
            /\ heap' = [heap EXCEPT ![trunk[h].data] = <<>>]
            /\ deleted' = [deleted EXCEPT ![trunk[h].deleted] = TRUE]
            /\ trunk' = FreedTrunk(h, trace)
            /\ freeSite' = [freeSite EXCEPT ![trunk[h].data] = trace]
            /\ UNCHANGED <<pool, refcount, pc, exitCode, tearIdx, out,
                           allocSite>>

\* ---------------------------------------------------- element access
\* validate(idx) rejecting the last element as out of bounds
ValidateCodeOffByOne(h, idx) ==
  IF idx + 1 >= trunk[h].size THEN 13
  ELSE IF deleted[trunk[h].deleted] THEN 14
  ELSE 0

\* validate(idx): the bounds check comes first, then
\* check_access_after_freed.  0 when the access goes through.
ValidateCode(h, idx) ==
  IF idx >= trunk[h].size THEN 13
  ELSE IF deleted[trunk[h].deleted] THEN 14
  ELSE 0

\* check_access_after_freed alone, as operator* uses it
CheckAccessCode(h) == IF deleted[trunk[h].deleted] THEN 14 ELSE 0

\* _data[idx] of the object h; storage that is gone holds anything
Elem(h, idx) ==
  IF idx < Len(heap[trunk[h].data]) THEN heap[trunk[h].data][idx + 1]
  ELSE Indet

\* what a read of the element e yields: any value when e is indeterminate
ReadOf(e) == IF e = Indet THEN Vals ELSE {e}

\* the diagnostic path shared by the accessors
AccessFails(h, code, idx) ==
  CASE code = 13 ->
         /\ out' = Append(out, Diag(13, h, trunk[h].allocated, ZeroTrace,
                                    ZeroTrace, idx, trunk[h].size))
         /\ CleanupAndExit(h, 13)
         /\ UNCHANGED <<pool, trunk, refcount, ret, freeSite, allocSite>>
    [] OTHER ->
         /\ out' = Append(out, Diag(14, h, ZeroTrace, trunk[h].freed,
                                    ZeroTrace, 0, 0))
         /\ Exit(14)
         /\ UNCHANGED <<pool, trunk, heap, nrelease, deleted, refcount, ret,
                        freeSite, allocSite>>

\* h[idx] read
Get(h, idx) ==
  /\ Step
  /\ Live(h)
  /\ LET code == ValidateCode(h, idx) IN
     IF code # 0
       THEN AccessFails(h, code, idx)
       ELSE /\ \E v \in ReadOf(Elem(h, idx)) : ret' = ValRet(v)
            /\ UNCHANGED <<pool, trunk, heap, nrelease, deleted, refcount,
                           pc, exitCode, tearIdx, out, freeSite, allocSite>>

\* h[idx] = v
Set(h, idx, v) ==
  /\ Step
  /\ Live(h)
  /\ LET code == ValidateCode(h, idx) IN
     IF code # 0
       THEN AccessFails(h, code, idx)
       ELSE /\ heap' = [heap EXCEPT ![trunk[h].data][idx + 1] = v]
            /\ ret' = NoRet
            /\ UNCHANGED <<pool, trunk, nrelease, deleted, refcount, pc,
                           exitCode, tearIdx, out, freeSite, allocSite>>

\* *h read
Deref(h) ==
  /\ Step
  /\ Live(h)
  /\ LET code == CheckAccessCode(h) IN
     IF code # 0
       THEN AccessFails(h, code, 0)
       ELSE /\ \E v \in ReadOf(Elem(h, 0)) : ret' = ValRet(v)
            /\ UNCHANGED <<pool, trunk, heap, nrelease, deleted, refcount,
                           pc, exitCode, tearIdx, out, freeSite, allocSite>>

\* *h = v
DerefSet(h, v) ==
  /\ Step
  /\ Live(h)
  /\ LET code == CheckAccessCode(h) IN
     IF code # 0
       THEN AccessFails(h, code, 0)
       ELSE /\ heap' = [heap EXCEPT ![trunk[h].data][1] = v]
            /\ ret' = NoRet
            /\ UNCHANGED <<pool, trunk, nrelease, deleted, refcount, pc,
                           exitCode, tearIdx, out, freeSite, allocSite>>

\* ------------------------------------------------------- assignment
\* operator= that leaves _data as it was
CopyFieldsKeepsData(this, that) ==
  [st |-> "live",
   allocated |-> trunk[that].allocated,
   freed |-> trunk[that].freed,
   single |-> trunk[that].single,
   data |-> trunk[this].data,
   size |-> trunk[that].size,
   iter |-> Iter(this, trunk[that].iter.idx),
   deleted |-> trunk[that].deleted,
   refcount |-> trunk[that].refcount]

\* operator= that keeps the cursor this had
CopyFieldsKeepsCursor(this, that) ==
  [st |-> "live",
   allocated |-> trunk[that].allocated,
   freed |-> trunk[that].freed,
   single |-> trunk[that].single,
   data |-> trunk[that].data,
   size |-> trunk[that].size,
   iter |-> Iter(this, trunk[this].iter.idx),
   deleted |-> trunk[that].deleted,
   refcount |-> trunk[that].refcount]

\* the members this takes from that in operator=
CopyFields(this, that) ==
  [st |-> "live",
   allocated |-> trunk[that].allocated,
   freed |-> trunk[that].freed,
   single |-> trunk[that].single,
   data |-> trunk[that].data,
   size |-> trunk[that].size,
   iter |-> Iter(this, trunk[that].iter.idx),
   deleted |-> trunk[that].deleted,
   refcount |-> trunk[that].refcount]

\* Trunk::operator=: this = that
Assign(this, that) ==
  /\ Step
  /\ Live(this) /\ Live(that)
  /\ ret' = NoRet
  /\ IF this = that
       THEN UNCHANGED <<pool, trunk, heap, nrelease, deleted, refcount, pc,
                        exitCode, tearIdx, out, freeSite, allocSite>>
       ELSE IF GiveUpLeaks(this)
         THEN /\ refcount' = DecRef(this)
              /\ out' = Append(out, LeakDiag(this))
              /\ CleanupAndExit(this, 11)
              /\ UNCHANGED <<pool, trunk, freeSite, allocSite>>
         ELSE /\ trunk' = [trunk EXCEPT ![this] = CopyFields(this, that)]
              /\ refcount' = [DecRef(this) EXCEPT ![trunk[that].refcount] =
                                (@ + 1) % SizeMod]
              /\ UNCHANGED <<pool, heap, nrelease, deleted, pc, exitCode,
                             tearIdx, out, freeSite, allocSite>>

\* ---------------------------------------------------------- cursor
\* the cursor values the model walks through
CursorCap(i) == i <= MaxCursor \/ i = SizeMod - 1

\* Iter::operator++() : Iter old = *this; ++_idx; return old;
IterPreInc(it) == [cur |-> Iter(it.trunk, (it.idx + 1) % SizeMod), res |-> it]
\* Iter::operator++(int) returning the Iter as it was before the step
IterPostIncReturnsOld(it) ==
  [cur |-> Iter(it.trunk, (it.idx + 1) % SizeMod), res |-> it]

\* Iter::operator++(int) : ++_idx; return *this;
IterPostInc(it) ==
  [cur |-> Iter(it.trunk, (it.idx + 1) % SizeMod),
   res |-> Iter(it.trunk, (it.idx + 1) % SizeMod)]
\* Iter::operator--() : Iter old = *this; --_idx; return old;
IterPreDec(it) ==
  [cur |-> Iter(it.trunk, (it.idx + SizeMod - 1) % SizeMod), res |-> it]
\* Iter::operator--(int) : --_idx; return *this;
IterPostDec(it) ==
  [cur |-> Iter(it.trunk, (it.idx + SizeMod - 1) % SizeMod),
   res |-> Iter(it.trunk, (it.idx + SizeMod - 1) % SizeMod)]

CursorStep(h, r) ==
  /\ Step
  /\ Live(h)
  /\ CursorCap(r.cur.idx)
  /\ trunk' = [trunk EXCEPT ![h].iter = r.cur]
  /\ ret' = IterRet(r.res)
  /\ UNCHANGED <<pool, heap, nrelease, deleted, refcount, pc, exitCode,
                 tearIdx, out, freeSite, allocSite>>

\* Trunk::operator++() { return _iter++; }
PreInc(h) == CursorStep(h, IterPostInc(trunk[h].iter))
\* Trunk::operator++(int) { return ++_iter; }
PostInc(h) == CursorStep(h, IterPreInc(trunk[h].iter))
\* Trunk::operator--() { return _iter--; }
PreDec(h) == CursorStep(h, IterPostDec(trunk[h].iter))
\* Trunk::operator--(int) { return --_iter; }
PostDec(h) == CursorStep(h, IterPreDec(trunk[h].iter))

\* Iter::operator+(int offset) : Iter(_trunk, _idx + offset)
IterPlus(it, n) == Iter(it.trunk, (it.idx + n) % SizeMod)
\* Iter::operator-(int offset) : Iter(_trunk, _idx - offset)
IterMinus(it, n) == Iter(it.trunk, (it.idx + SizeMod - n) % SizeMod)

\* the Iter a Trunk hands out without moving its own cursor
OffsetStep(h, it) ==
  /\ Step
  /\ Live(h)
  /\ ret' = IterRet(it)
  /\ UNCHANGED <<pool, trunk, heap, nrelease, deleted, refcount, pc, exitCode,
                 tearIdx, out, freeSite, allocSite>>

\* Trunk::operator+(int offset) { return _iter + offset; }
OffsetPlus(h, n) == OffsetStep(h, IterPlus(trunk[h].iter, n))
\* Trunk::operator-(int offset) { return _iter - offset; }
OffsetMinus(h, n) == OffsetStep(h, IterMinus(trunk[h].iter, n))

\* Iter::operator*() { return _trunk[_idx]; } applied to the Iter just
\* returned.  _trunk is a Trunk*, so the subscript steps over Trunk objects
\* and not over the buffer: neither validate nor
\* check_access_after_freed is called, nothing is printed, and what the
\* reference denotes is not an element of the allocation.
IterDeref ==
  /\ Step
  /\ ret.kind = "iter"
  /\ \E v \in ReadOf(Indet) : ret' = ValRet(v)
  /\ UNCHANGED <<pool, trunk, heap, nrelease, deleted, refcount, pc, exitCode,
                 tearIdx, out, freeSite, allocSite>>

\* --------------------------------------------------------- overview
\* Allocator::overview: one line per entry of pool, in order, with
\* data(), refcount() and size() of the object the entry points to
Overview ==
  [i \in 1 .. Len(pool) |->
     [data |-> trunk[pool[i]].data,
      refcount |-> refcount[trunk[pool[i]].refcount],
      size |-> trunk[pool[i]].size]]

\* ------------------------------------------------------- termination
\* main returns: the termination sequence starts with status 0
MainReturn ==
  /\ pc = "running"
  /\ Exit(0)
  /\ UNCHANGED <<pool, trunk, heap, nrelease, deleted, refcount, out, ret,
                 freeSite, allocSite, nops>>

\* one round of ~Allocator's loop: delete pool[tearIdx], that is ~Trunk
TeardownStep ==
  /\ pc = "exiting"
  /\ tearIdx <= Len(pool)
  /\ LET h == pool[tearIdx] IN
     /\ refcount' = DecRef(h)
     /\ IF GiveUpLeaks(h)
          THEN /\ out' = Append(out, LeakDiag(h))
               /\ CleanupAndExit(h, 11)
               /\ UNCHANGED <<pool, trunk, ret, freeSite, allocSite, nops>>
          ELSE /\ trunk' = [trunk EXCEPT ![h] = DeadTrunk]
               /\ tearIdx' = tearIdx + 1
               /\ nops' = nops
               /\ UNCHANGED <<pool, heap, nrelease, deleted, pc, exitCode,
                              out, ret, freeSite, allocSite>>

\* ~Allocator has walked the whole pool: the process ends with exitCode
TeardownDone ==
  /\ pc = "exiting"
  /\ tearIdx > Len(pool)
  /\ pc' = "done"
  /\ UNCHANGED <<pool, trunk, heap, nrelease, deleted, refcount, exitCode,
                 tearIdx, out, ret, freeSite, allocSite, nops>>

Next ==
  \/ \E count \in Counts, line \in Lines, single \in BOOLEAN :
        Alloc(count, line, single)
  \/ \E n \in CopyIds, h \in Handles : CopyConstruct(n, h)
  \/ \E h \in Handles : Destroy(h)
  \/ \E h \in Handles, line \in Lines, single \in BOOLEAN :
        Free(h, line, single)
  \/ \E h \in Handles, idx \in Indices : Get(h, idx)
  \/ \E h \in Handles, idx \in Indices, v \in Vals : Set(h, idx, v)
  \/ \E h \in Handles : Deref(h)
  \/ \E h \in Handles, v \in Vals : DerefSet(h, v)
  \/ \E this \in Handles, that \in Handles : Assign(this, that)
  \/ \E h \in Handles : PreInc(h)
  \/ \E h \in Handles : PostInc(h)
  \/ \E h \in Handles : PreDec(h)
  \/ \E h \in Handles : PostDec(h)
  \/ \E h \in Handles, n \in Offsets : OffsetPlus(h, n)
  \/ \E h \in Handles, n \in Offsets : OffsetMinus(h, n)
  \/ IterDeref
  \/ MainReturn
  \/ TeardownStep
  \/ TeardownDone

Spec == Init /\ [][Next]_vars

\* ------------------------------------------------- the clean program
\* A program that only allocates with a count that fits the kind, accesses
\* elements in bounds while the allocation is live, frees each allocation
\* once with the free of its kind, all through the object alloc returned,
\* and returns from main when everything is freed.
PoolHandle(h) == h \in 1 .. Len(pool)

CleanAlloc(count, line, single) ==
  /\ IF single THEN count = 1 ELSE count >= 1
  /\ Alloc(count, line, single)

InBoundsLive(h, idx) ==
  /\ PoolHandle(h) /\ Live(h)
  /\ idx < trunk[h].size
  /\ ~deleted[trunk[h].deleted]

CleanGet(h, idx) == InBoundsLive(h, idx) /\ Get(h, idx)

CleanSet(h, idx, v) == InBoundsLive(h, idx) /\ Set(h, idx, v)

CleanDeref(h) == InBoundsLive(h, 0) /\ Deref(h)

CleanDerefSet(h, v) == InBoundsLive(h, 0) /\ DerefSet(h, v)

CleanFree(h, line) ==
  /\ PoolHandle(h) /\ Live(h)
  /\ ~deleted[trunk[h].deleted]
  /\ Free(h, line, trunk[h].single)

CleanReturn ==
  /\ \A c \in 1 .. Len(pool) : freeSite[c] # ZeroTrace
  /\ MainReturn

NextClean ==
  \/ \E count \in Counts, line \in Lines, single \in BOOLEAN :
        CleanAlloc(count, line, single)
  \/ \E h \in Handles, idx \in Indices : CleanGet(h, idx)
  \/ \E h \in Handles, idx \in Indices, v \in Vals : CleanSet(h, idx, v)
  \/ \E h \in Handles : CleanDeref(h)
  \/ \E h \in Handles, v \in Vals : CleanDerefSet(h, v)
  \/ \E h \in Handles, line \in Lines : CleanFree(h, line)
  \/ CleanReturn
  \/ TeardownStep
  \/ TeardownDone

\* once main has returned the runtime runs ~Allocator to its end
SpecClean ==
  /\ Init /\ [][NextClean]_vars
  /\ WF_vars(TeardownStep) /\ WF_vars(TeardownDone)

\* ====================================================== properties
\* the step printed a diagnostic
Printed == Len(out') = Len(out) + 1
NewDiag == out'[Len(out')]
Terminated == pc # "running"

\* two objects that hold the same logical allocation (the same counter)
Aliased(h1, h2) ==
  Live(h1) /\ Live(h2) /\ trunk[h1].refcount = trunk[h2].refcount

\* the object the termination sequence is about to delete
TornDown(h) ==
  pc = "exiting" /\ tearIdx <= Len(pool) /\ h = pool[tearIdx] /\ TeardownStep

\* C1: the buffer of a logical allocation is never released more than
\* once, whatever sequence of operations runs and however it ends.
C1_ExactlyOnceRelease == \A c \in Cells : nrelease[c] <= 1

\* C2: destroying a handle decrements the counter by exactly one; the leak
\* diagnostic with exit(11) fires exactly when the counter reaches 0 while
\* the allocation is not deleted, in which case the buffer is released and
\* the allocation marked deleted; otherwise the destruction prints nothing
\* and does not terminate the process.
C2_LeakOnLastRelease ==
  [][\A h \in Handles : (Destroy(h) \/ TornDown(h)) =>
       LET c == trunk[h].refcount
           leak == Printed /\ NewDiag.code = 11
       IN /\ refcount'[c] = (refcount[c] + SizeMod - 1) % SizeMod
          /\ \A d \in Cells \ {c} : refcount'[d] = refcount[d]
          /\ leak <=> (refcount'[c] = 0 /\ ~deleted[trunk[h].deleted])
          /\ leak => /\ exitCode' = 11
                      /\ pc' # "running"
                      /\ nrelease'[trunk[h].data] = nrelease[trunk[h].data] + 1
                      /\ nrelease[trunk[h].data] = 0
                      /\ deleted'[trunk[h].deleted]
                      /\ NewDiag.allocated = trunk[h].allocated
          /\ ~leak => /\ out' = out
                       /\ pc' = pc
                       /\ exitCode' = exitCode
                       /\ nrelease' = nrelease
                       /\ deleted' = deleted]_vars

\* C2 witness: the leak was reported by the termination sequence, when it
\* deleted the pool's object of an allocation that was never freed.
C2_Witness ==
  /\ pc = "done" /\ exitCode = 11 /\ tearIdx <= Len(pool)
  /\ Len(out) = 1 /\ out[1].code = 11
  /\ nrelease[out[1].obj] = 1 /\ deleted[out[1].obj]

C4_MismatchFirst ==
  [][\A h \in Handles, t \in Lines, s \in BOOLEAN : Free(h, t, s) =>
       /\ (trunk[h].single /\ ~s) => (pc' = "exiting" /\ exitCode' = 21)
       /\ (~trunk[h].single /\ s) => (pc' = "exiting" /\ exitCode' = 22)
       /\ (Printed /\ NewDiag.code = 12) => s = trunk[h].single]_vars

\* C5: element access checks liveness before bounds: exit code 14 on a
\* deleted allocation for every index; exit code 13 only on a live
\* allocation with idx >= count, releasing the buffer and marking it
\* deleted; no diagnostic on a live allocation with idx < count.
C5_LivenessBeforeBounds ==
  [][\A h \in Handles, i \in Indices :
       (Get(h, i) \/ \E v \in Vals : Set(h, i, v)) =>
         /\ deleted[trunk[h].deleted] =>
               (Printed /\ NewDiag.code = 14 /\ exitCode' = 14)
         /\ (Printed /\ NewDiag.code = 13) =>
               /\ ~deleted[trunk[h].deleted] /\ i >= trunk[h].size
               /\ nrelease'[trunk[h].data] = 1
               /\ deleted'[trunk[h].deleted]
         /\ (~deleted[trunk[h].deleted] /\ i < trunk[h].size) =>
               (out' = out /\ pc' = "running")]_vars

\* C6: a kind-matching free on a live allocation does not terminate the
\* process, sets deleted, records the call site as freed_at, releases the
\* buffer once and leaves the counter, the kind, the count, the
\* allocation site and the cursor as they were; a deleted flag never
\* returns to false.
C6_FreeWellFormed ==
  [][/\ \A h \in Handles, t \in Lines, s \in BOOLEAN :
          (Free(h, t, s) /\ s = trunk[h].single
                         /\ ~deleted[trunk[h].deleted]) =>
            /\ pc' = "running" /\ out' = out /\ exitCode' = exitCode
            /\ deleted'[trunk[h].deleted]
            /\ trunk'[h].freed = t
            /\ nrelease'[trunk[h].data] = nrelease[trunk[h].data] + 1
            /\ nrelease[trunk[h].data] = 0
            /\ refcount' = refcount
            /\ trunk'[h] = [trunk[h] EXCEPT !.freed = t]
            /\ \A g \in Handles \ {h} : trunk'[g] = trunk[g]
     /\ \A c \in Cells : deleted[c] => deleted'[c]]_vars

\* C6 witness: the program still runs after a free through an object whose
\* cursor had been moved; the buffer is released once, the counter is kept.
C6_Witness ==
  /\ pc = "running" /\ out = <<>>
  /\ \E h \in Handles :
        /\ Live(h) /\ deleted[trunk[h].deleted]
        /\ trunk[h].freed # ZeroTrace
        /\ trunk[h].iter.idx # 0
        /\ nrelease[trunk[h].data] = 1
        /\ refcount[trunk[h].refcount] = 1

\* C7: once a free has succeeded on an allocation, no destruction or
\* reassignment of a handle reports that allocation as leaked.
C7_NoLeakAfterFree ==
  [][\A c \in Cells : (deleted[c] /\ freeSite[c] # ZeroTrace) =>
       ~(Printed /\ NewDiag.code = 11 /\ NewDiag.obj = c)]_vars

\* C7 witness: after the free the last counted handle went away (the
\* counter is 0) and the program runs on without a diagnostic.
C7_Witness ==
  /\ pc = "running" /\ out = <<>>
  /\ \E c \in Cells : freeSite[c] # ZeroTrace /\ deleted[c] /\ refcount[c] = 0

\* C8: while the program runs, the counter of every logical allocation is
\* the number of live handle objects that refer to it.
C8_RefcountCountsHandles ==
  pc = "running" =>
    \A c \in 1 .. Len(pool) :
      refcount[c] = Cardinality({h \in Handles :
                                   Live(h) /\ trunk[h].refcount = c})

\* C9: every use-after-free and double-free diagnostic cites, as the first
\* free, the call site of the free that released the allocation, whichever
\* handle triggers it.
C9_FreedAtShared ==
  \A i \in 1 .. Len(out) :
    out[i].code \in {12, 14} => out[i].first = freeSite[out[i].obj]

\* C10: handles of one live allocation see the same elements at every
\* point, a value stored through one is what the others hold at that
\* index, and deref reads the element at index 0.
C10_AliasTransparency ==
  [][/\ \A h1 \in Handles, h2 \in Handles :
          (Aliased(h1, h2)' /\ ~deleted'[trunk'[h1].deleted]) =>
             \A i \in 0 .. (trunk'[h1].size - 1) :
                Elem(h1, i)' = Elem(h2, i)'
     /\ \A h1 \in Handles, i \in Indices, v \in Vals :
          (Set(h1, i, v) /\ pc' = "running") =>
             \A h2 \in Handles : Aliased(h1, h2) => Elem(h2, i)' = v
     /\ \A h \in Handles :
          (Deref(h) /\ pc' = "running") =>
             ret'.kind = "val" /\ ret'.val \in ReadOf(Elem(h, 0))]_vars

\* C10 witness: two objects share a live allocation, an element of it has
\* been stored, and the latest read returned that element.
C10_Witness ==
  /\ pc = "running"
  /\ \E h1 \in Handles, h2 \in Handles :
        /\ h1 # h2 /\ Aliased(h1, h2)
        /\ ~deleted[trunk[h1].deleted]
        /\ \E i \in 0 .. (trunk[h1].size - 1) :
              /\ Elem(h1, i) # Indet
              /\ ret = ValRet(Elem(h2, i))

\* the records of out that report allocation c as leaked
LeakReports(c) ==
  {i \in 1 .. Len(out) : out[i].code = 11 /\ out[i].obj = c}

\* C11: when the process has ended, an allocation that was never freed,
\* and before whose leak no other diagnostic was printed, has been reported
\* as leaked with its allocation site, by an exit(11).
C11_LeakCaughtByEnd ==
  pc \in {"done", "crashed"} =>
    \A c \in 1 .. Len(pool) :
      (freeSite[c] = ZeroTrace /\ (out = <<>> \/ 1 \in LeakReports(c))) =>
        /\ 1 \in LeakReports(c)
        /\ out[1].allocated = allocSite[c]
        /\ exitCode = 11

\* C12: the clean program prints no diagnostic at any point, teardown
\* included, never crashes, and once main has returned the process ends
\* with status 0.
C12_CleanRun ==
  /\ [](out = <<>> /\ pc \in {"running", "exiting", "done"})
  /\ [](pc \in {"exiting", "done"} => exitCode = 0)
  /\ (pc = "exiting") ~> (pc = "done" /\ exitCode = 0 /\ out = <<>>)

\* C12 witness: two allocations were written, freed, and the process ended.
C12_Witness ==
  /\ pc = "done" /\ exitCode = 0 /\ out = <<>>
  /\ Len(pool) = 2
  /\ \A c \in 1 .. 2 : freeSite[c] # ZeroTrace /\ nrelease[c] = 1
  /\ trunk[1].st = "dead" /\ trunk[2].st = "dead"

\* C13: this = that between objects of two different allocations A and B
\* decrements A's counter by one; when that reaches 0 with A not deleted
\* the leak is reported with exit(11); otherwise this takes B's cells and
\* buffer, B's counter goes up by one, B's deleted flag and buffer are
\* untouched and this has the cursor that has.
C13_AssignAcross ==
  [][\A this \in Handles, that \in Handles :
       (Assign(this, that) /\ trunk[this].refcount # trunk[that].refcount) =>
         LET a == trunk[this].refcount
             b == trunk[that].refcount
             leak == refcount[a] = 1 /\ ~deleted[trunk[this].deleted]
         IN /\ refcount'[a] = (refcount[a] + SizeMod - 1) % SizeMod
            /\ leak => /\ Printed /\ NewDiag.code = 11 /\ NewDiag.obj = a
                       /\ exitCode' = 11 /\ pc' = "exiting"
                       /\ trunk' = trunk
                       /\ refcount'[b] = refcount[b]
            /\ ~leak => /\ out' = out /\ pc' = pc
                        /\ trunk'[this].refcount = b
                        /\ trunk'[this].deleted = trunk[that].deleted
                        /\ trunk'[this].data = trunk[that].data
                        /\ trunk'[this].size = trunk[that].size
                        /\ trunk'[this].iter.idx = trunk[that].iter.idx
                        /\ trunk'[that] = trunk[that]
                        /\ refcount'[b] = (refcount[b] + 1) % SizeMod
                        /\ deleted' = deleted
                        /\ heap' = heap
                        /\ nrelease' = nrelease]_vars

\* C13 witness: the first pool object was assigned the second, whose cursor
\* had been moved: both hold the second allocation, counted twice.
C13_Witness ==
  /\ pc = "running" /\ Len(pool) = 2
  /\ trunk[1].refcount = 2 /\ trunk[2].refcount = 2
  /\ refcount[2] = 2 /\ refcount[1] = 0
  /\ trunk[1].iter.idx = trunk[2].iter.idx /\ trunk[1].iter.idx # 0

\* C14: this = that between two distinct objects of the same allocation
\* changes nothing and prints nothing.
C14_AssignAliasNoOp ==
  [][\A this \in Handles, that \in Handles :
       (Assign(this, that) /\ this # that /\ Aliased(this, that)) =>
         /\ trunk' = trunk
         /\ refcount' = refcount
         /\ deleted' = deleted
         /\ out' = out
         /\ pc' = pc]_vars

\* C15: two objects of the same allocation have the same cursor in every
\* reachable state.
C15_CursorShared ==
  \A h1 \in Handles, h2 \in Handles :
    Aliased(h1, h2) => trunk[h1].iter.idx = trunk[h2].iter.idx

\* C16: the cursor of every object stays within 0 .. count.
C16_CursorInRange ==
  \A h \in Handles :
    Live(h) => (0 <= trunk[h].iter.idx /\ trunk[h].iter.idx <= trunk[h].size)

\* C17: on a Trunk the prefix forms move the cursor one step and return
\* the new position, the postfix forms move it one step and return the old
\* position.
C17_IncDecContract ==
  [][\A h \in Handles :
       LET old == trunk[h].iter.idx
           up == (old + 1) % SizeMod
           down == (old + SizeMod - 1) % SizeMod
       IN /\ PreInc(h) => (trunk'[h].iter.idx = up /\ ret'.iter.idx = up)
          /\ PostInc(h) => (trunk'[h].iter.idx = up /\ ret'.iter.idx = old)
          /\ PreDec(h) => (trunk'[h].iter.idx = down /\ ret'.iter.idx = down)
          /\ PostDec(h) => (trunk'[h].iter.idx = down /\ ret'.iter.idx = old)
          /\ (PreInc(h) \/ PostInc(h) \/ PreDec(h) \/ PostDec(h)) =>
                /\ ret'.kind = "iter" /\ ret'.iter.trunk = trunk[h].iter.trunk
                /\ \A g \in Handles \ {h} : trunk'[g] = trunk[g]]_vars

\* C17 witness: an increment returned the position the cursor now has.
C17_Witness ==
  /\ pc = "running" /\ ret.kind = "iter"
  /\ \E h \in Handles :
        /\ Live(h) /\ ret.iter.trunk = h
        /\ trunk[h].iter.idx = 1 /\ ret.iter.idx = 1

\* C18: offset(n) changes nothing and checks nothing, and dereferencing the
\* cursor handle it returns, at position p, is validated like element
\* access at p: exit 14 when deleted, exit 13 when p >= count, otherwise it
\* yields buffer[p].
C18_OffsetDeref ==
  [][/\ \A h \in Handles, n \in Offsets :
          (OffsetPlus(h, n) \/ OffsetMinus(h, n)) =>
             /\ trunk' = trunk /\ out' = out /\ pc' = pc
             /\ ret'.kind = "iter"
     /\ \A h \in Handles, n \in Offsets :
          OffsetPlus(h, n) =>
             ret'.iter.idx = (trunk[h].iter.idx + n) % SizeMod
     /\ (IterDeref /\ Live(ret.iter.trunk)) =>
          LET h == ret.iter.trunk
              p == ret.iter.idx
          IN IF deleted[trunk[h].deleted]
               THEN Printed /\ NewDiag.code = 14 /\ exitCode' = 14
               ELSE IF p >= trunk[h].size
                 THEN Printed /\ NewDiag.code = 13 /\ exitCode' = 13
                 ELSE /\ out' = out /\ pc' = pc
                      /\ ret'.val \in ReadOf(Elem(h, p))]_vars

\* C19: teardown deletes the pool's objects in insertion order, and when
\* the process has ended every allocation that was still live when
\* teardown began has its leak record.
C19_TeardownReportsAll ==
  /\ pc \in {"exiting", "done"} =>
        \A i \in 1 .. Len(pool) : (trunk[pool[i]].st = "dead") <=> (i < tearIdx)
  /\ pc = "done" =>
        \A c \in 1 .. Len(pool) :
          (freeSite[c] = ZeroTrace
             /\ \A i \in 1 .. Len(out) :
                   out[i].obj = c => out[i].code = 11) =>
            LeakReports(c) # {}

\* C20: while the program runs the i-th entry of pool refers to the i-th
\* allocation, so overview lists every allocation once, in order, with its
\* own counter and size.
C20_RegistryStable ==
  pc = "running" =>
    /\ pool = [i \in 1 .. Len(pool) |-> i]
    /\ \A i \in 1 .. Len(pool) :
          /\ Overview[i].data = i
          /\ Overview[i].refcount = refcount[i]
====
